---- MODULE Spec2Model ----
(***************************************************************************)
(* ConfidentialGame: players join with encrypted gold and place encrypted  *)
(* building types on a 3x3 grid.  The contract never branches on a secret: *)
(* every placement runs the same equality / boolean / select / subtract    *)
(* operations.  Encrypted values are modelled by the plaintext they        *)
(* decrypt to, and every FHE primitive by what it computes on plaintexts.  *)
(* A storage slot that was never written (the zero handle) decrypts to 0   *)
(* and has an empty access list.                                           *)
(***************************************************************************)
EXTENDS Integers, Sequences, FiniteSets

(* ------------------------------ bounds -------------------------------- *)

\* positions 0..MaxPosition are submitted (uint8 position; >= GRID_SIZE reverts)
MaxPosition == 9
\* building types 0..MaxBuildingType are submitted (euint8; 1..4 are buildings)
MaxBuildingType == 5
\* the event log is unbounded in the contract; the model stops at this length
MaxEvents == 3
\* the log length at which the one-player specification SpecSolo stops
MaxSoloEvents == 4
\* the log length at which the board-filling specification SpecFill stops
MaxFillEvents == 10
\* placements applied to each arbitrary stored state of SpecEngine
MaxEngineCalls == 1

(* ------------------------- program constants -------------------------- *)

GRID_WIDTH == 3
GRID_SIZE == GRID_WIDTH * GRID_WIDTH
STARTING_GOLD == 10000

STATUS_SUCCESS == 0
STATUS_INVALID_BUILDING == 1
STATUS_TILE_TAKEN == 2
STATUS_NO_FUNDS == 3

\* the test signers that send transactions, and the contract's own address
Players == {"alice", "bob"}
This == "this"

PositionInputs == 0..MaxPosition
BuildingTypeInputs == 0..MaxBuildingType
GridPositions == 0..(GRID_SIZE - 1)

(* --------------------------- FHE primitives ---------------------------- *)
(* euint64 values are kept as signed integers read in two's complement:    *)
(* v >= 0 stands for v, and -k stands for 2^64 - k, so that FHE.sub wraps  *)
(* modulo 2^64 as the library does and FHE.ge compares unsigned.           *)

FHE_eq(a, b) == a = b
FHE_and(a, b) == a /\ b
FHE_or(a, b) == a \/ b
FHE_select(c, a, b) == IF c THEN a ELSE b
FHE_sub(a, b) == a - b
FHE_ge(a, b) == IF (a < 0) = (b < 0) THEN a >= b ELSE a < 0

(* ------------------------------- state --------------------------------- *)

VARIABLES
    _hasJoined,            \* address -> bool
    _balances,             \* address -> euint64
    _buildings,            \* address -> (uint8 -> euint8)
    _lastPlacementStatus,  \* address -> euint8
    acl,                   \* per player and slot: who may decrypt the stored handle
    events,                \* the emitted events, in order
    last                   \* the last transaction: its call, its outcome, what it read

store == <<_hasJoined, _balances, _buildings, _lastPlacementStatus, acl>>
vars == <<_hasJoined, _balances, _buildings, _lastPlacementStatus, acl, events, last>>

NoAcl == [balance |-> {}, status |-> {}, tiles |-> [p \in GridPositions |-> {}]]

NoCall ==
    [op |-> "none", sender |-> "none", position |-> 0, buildingType |-> 0,
     revert |-> "none", preTile |-> 0, preBalance |-> 0, preStatus |-> 0,
     repeat |-> FALSE]

Init ==
    /\ _hasJoined = [a \in Players |-> FALSE]
    /\ _balances = [a \in Players |-> 0]
    /\ _buildings = [a \in Players |-> [p \in GridPositions |-> 0]]
    /\ _lastPlacementStatus = [a \in Players |-> 0]
    /\ acl = [a \in Players |-> NoAcl]
    /\ events = <<>>
    /\ last = NoCall

(* --------------------------- internal helpers -------------------------- *)

\* mutant: a range check with no lower bound
_isValidBuilding_upToFour(buildingType) == buildingType <= 4

\* mutant: the test for type 4 is left out of the disjunction
_isValidBuilding_missingFour(buildingType) ==
    FHE_or(FHE_or(FHE_eq(buildingType, 1), FHE_eq(buildingType, 2)),
           FHE_eq(buildingType, 3))

_isValidBuilding(buildingType) ==
    LET isOne == FHE_eq(buildingType, 1)
        isTwo == FHE_eq(buildingType, 2)
        isThree == FHE_eq(buildingType, 3)
        isFour == FHE_eq(buildingType, 4)
    IN  FHE_or(FHE_or(isOne, isTwo), FHE_or(isThree, isFour))

\* mutant: the select for type 2 is missing from the chain
_buildingCost_missingTwo(buildingType) ==
    LET cost0 == 0
        cost1 == FHE_select(FHE_eq(buildingType, 1), 100, cost0)
        cost3 == FHE_select(FHE_eq(buildingType, 3), 400, cost1)
        cost4 == FHE_select(FHE_eq(buildingType, 4), 1000, cost3)
    IN  cost4

\* mutant: one zero too many in the cost of type 4
_buildingCost_tenfold(buildingType) ==
    LET cost0 == 0
        cost1 == FHE_select(FHE_eq(buildingType, 1), 100, cost0)
        cost2 == FHE_select(FHE_eq(buildingType, 2), 200, cost1)
        cost3 == FHE_select(FHE_eq(buildingType, 3), 400, cost2)
        cost4 == FHE_select(FHE_eq(buildingType, 4), 10000, cost3)
    IN  cost4

\* mutant: the costs of types 3 and 4 are exchanged
_buildingCost_swapped(buildingType) ==
    LET cost0 == 0
        cost1 == FHE_select(FHE_eq(buildingType, 1), 100, cost0)
        cost2 == FHE_select(FHE_eq(buildingType, 2), 200, cost1)
        cost3 == FHE_select(FHE_eq(buildingType, 3), 1000, cost2)
        cost4 == FHE_select(FHE_eq(buildingType, 4), 400, cost3)
    IN  cost4

_buildingCost(buildingType) ==
    LET cost0 == 0
        cost1 == FHE_select(FHE_eq(buildingType, 1), 100, cost0)
        cost2 == FHE_select(FHE_eq(buildingType, 2), 200, cost1)
        cost3 == FHE_select(FHE_eq(buildingType, 3), 400, cost2)
        cost4 == FHE_select(FHE_eq(buildingType, 4), 1000, cost3)
    IN  cost4

\* mutant: the occupied-tile override does not ask for a valid type, so it
\* wins over the invalid-type override
_placementStatus_tileFirst(isValid, isEmpty, hasFunds, canPlace) ==
    LET status0 == STATUS_SUCCESS
        status1 == FHE_select(FHE_eq(isValid, FALSE), STATUS_INVALID_BUILDING, status0)
        tileBlocked == FHE_eq(isEmpty, FALSE)
        status2 == FHE_select(tileBlocked, STATUS_TILE_TAKEN, status1)
        fundsCheckRequired == FHE_and(FHE_eq(isValid, TRUE), FHE_eq(isEmpty, TRUE))
        lacksFunds == FHE_and(fundsCheckRequired, FHE_eq(hasFunds, FALSE))
        status3 == FHE_select(lacksFunds, STATUS_NO_FUNDS, status2)
        status4 == FHE_select(canPlace, STATUS_SUCCESS, status3)
    IN  status4

\* mutant: the occupied-tile override is left out
_placementStatus_noTileCheck(isValid, isEmpty, hasFunds, canPlace) ==
    LET status0 == STATUS_SUCCESS
        status1 == FHE_select(FHE_eq(isValid, FALSE), STATUS_INVALID_BUILDING, status0)
        fundsCheckRequired == FHE_and(FHE_eq(isValid, TRUE), FHE_eq(isEmpty, TRUE))
        lacksFunds == FHE_and(fundsCheckRequired, FHE_eq(hasFunds, FALSE))
        status3 == FHE_select(lacksFunds, STATUS_NO_FUNDS, status1)
        status4 == FHE_select(canPlace, STATUS_SUCCESS, status3)
    IN  status4

\* the condition of the first override
invalidType(isValid) == FHE_eq(isValid, FALSE)

\* mutant: the occupied-tile condition does not ask for a valid type
tileBlocked_anyType(isValid, isEmpty) == FHE_eq(isEmpty, FALSE)

\* the condition of the second override
tileBlocked(isValid, isEmpty) ==
    FHE_and(FHE_eq(isValid, TRUE), FHE_eq(isEmpty, FALSE))

\* the condition of the third override
lacksFunds(isValid, isEmpty, hasFunds) ==
    LET fundsCheckRequired == FHE_and(FHE_eq(isValid, TRUE), FHE_eq(isEmpty, TRUE))
    IN  FHE_and(fundsCheckRequired, FHE_eq(hasFunds, FALSE))

\* the status after the three overrides, before the last select on canPlace
statusOverrides(isValid, isEmpty, hasFunds) ==
    LET status0 == STATUS_SUCCESS
        status1 == FHE_select(invalidType(isValid), STATUS_INVALID_BUILDING, status0)
        status2 == FHE_select(tileBlocked(isValid, isEmpty), STATUS_TILE_TAKEN, status1)
        status3 == FHE_select(lacksFunds(isValid, isEmpty, hasFunds),
                              STATUS_NO_FUNDS, status2)
    IN  status3

_placementStatus(isValid, isEmpty, hasFunds, canPlace) ==
    FHE_select(canPlace, STATUS_SUCCESS, statusOverrides(isValid, isEmpty, hasFunds))

\* mutant: FHE.allowThis is left out
Granted_ownerOnly(sender) == {sender}

\* FHE.allowThis(h); FHE.allow(h, sender) on the handle just stored
Granted(sender) == {This, sender}

\* a reverted transaction: nothing it wrote is kept, the error is returned
Reverted(call) ==
    /\ UNCHANGED <<store, events>>
    /\ last' = call

(* ------------------------------ joinGame ------------------------------- *)

JoinCall(sender, err) ==
    [op |-> "joinGame", sender |-> sender, position |-> 0, buildingType |-> 0,
     revert |-> err, preTile |-> 0, preBalance |-> _balances[sender],
     preStatus |-> _lastPlacementStatus[sender], repeat |-> FALSE]

\* mutant: the value is computed but never stored
SetBalance_dropped(sender, value) == _balances

\* mutant: one balance shared by all players
SetBalance_shared(sender, value) == [a \in Players |-> value]

\* _balances[msg.sender] = value
SetBalance(sender, value) == [_balances EXCEPT ![sender] = value]

\* mutant: the PlayerJoined event is not emitted
JoinEffects_silent(sender) ==
    /\ _hasJoined' = [_hasJoined EXCEPT ![sender] = TRUE]
    /\ _balances' = SetBalance(sender, STARTING_GOLD)
    /\ _buildings' = [_buildings EXCEPT ![sender] = [i \in GridPositions |-> 0]]
    /\ _lastPlacementStatus' =
           [_lastPlacementStatus EXCEPT ![sender] = STATUS_SUCCESS]
    /\ acl' = [acl EXCEPT ![sender] =
           [balance |-> Granted(sender), status |-> Granted(sender),
            tiles |-> [i \in GridPositions |-> Granted(sender)]]]
    /\ events' = events
    /\ last' = JoinCall(sender, "none")

\* mutant: one joined flag for the whole contract instead of one per player
JoinEffects_sharedFlag(sender) ==
    /\ _hasJoined' = [a \in Players |-> TRUE]
    /\ _balances' = SetBalance(sender, STARTING_GOLD)
    /\ _buildings' = [_buildings EXCEPT ![sender] = [i \in GridPositions |-> 0]]
    /\ _lastPlacementStatus' =
           [_lastPlacementStatus EXCEPT ![sender] = STATUS_SUCCESS]
    /\ acl' = [acl EXCEPT ![sender] =
           [balance |-> Granted(sender), status |-> Granted(sender),
            tiles |-> [i \in GridPositions |-> Granted(sender)]]]
    /\ events' = Append(events, [name |-> "PlayerJoined", player |-> sender])
    /\ last' = JoinCall(sender, "none")

\* the body of joinGame after the AlreadyJoined check
JoinEffects(sender) ==
    LET startingGold == STARTING_GOLD
        emptyTile == 0
        status == STATUS_SUCCESS
    IN  /\ _hasJoined' = [_hasJoined EXCEPT ![sender] = TRUE]
        /\ _balances' = SetBalance(sender, startingGold)
        /\ _buildings' = [_buildings EXCEPT
               ![sender] = [i \in GridPositions |-> emptyTile]]
        /\ _lastPlacementStatus' =
               [_lastPlacementStatus EXCEPT ![sender] = status]
        /\ acl' = [acl EXCEPT ![sender] =
               [balance |-> Granted(sender), status |-> Granted(sender),
                tiles |-> [i \in GridPositions |-> Granted(sender)]]]
        /\ events' = Append(events, [name |-> "PlayerJoined", player |-> sender])
        /\ last' = JoinCall(sender, "none")

\* mutant: no AlreadyJoined check
joinGame_noGuard(sender) == JoinEffects(sender)

\* mutant: one seat in the game, taken by the first player who joins
joinGame_oneSeat(sender) ==
    IF \E a \in Players : _hasJoined[a]
    THEN Reverted(JoinCall(sender, "AlreadyJoined"))
    ELSE JoinEffects(sender)

joinGame(sender) ==
    IF _hasJoined[sender]
    THEN Reverted(JoinCall(sender, "AlreadyJoined"))
    ELSE JoinEffects(sender)

(* ---------------------------- placeBuilding ---------------------------- *)

\* what the call returned to its caller: a reverted call returns only its
\* error (InvalidPosition carries the position, NotJoined carries nothing)
PlaceCall(sender, position, buildingType, err) ==
    [op |-> "placeBuilding", sender |-> sender, position |-> position,
     buildingType |-> buildingType, revert |-> err,
     preTile |-> IF position \in GridPositions
                 THEN _buildings[sender][position] ELSE 0,
     preBalance |-> _balances[sender],
     preStatus |-> _lastPlacementStatus[sender],
     repeat |-> /\ err = "none"
                /\ last.op = "placeBuilding"
                /\ last.revert = "none"
                /\ last.sender = sender
                /\ last.position = position
                /\ last.buildingType = buildingType]

\* mutant: the validity check is left out of the decision
canPlace_noValid(isValid, isEmpty, hasFunds) == FHE_and(isEmpty, hasFunds)

\* mutant: the empty-tile check is left out of the decision
canPlace_noEmpty(isValid, isEmpty, hasFunds) == FHE_and(isValid, hasFunds)

\* mutant: the affordability check is left out of the decision
canPlace_noFunds(isValid, isEmpty, hasFunds) == FHE_and(isValid, isEmpty)

canPlace(isValid, isEmpty, hasFunds) == FHE_and(isValid, FHE_and(isEmpty, hasFunds))

\* mutant: the submitted type is stored whatever the decision
resultingBuilding_ungated(can, encryptedType, existing) == encryptedType

resultingBuilding(can, encryptedType, existing) ==
    FHE_select(can, encryptedType, existing)

\* mutant: the branches of the select are exchanged
spend_inverted(can, cost) == FHE_select(can, 0, cost)

\* mutant: the cost is charged whatever the decision
spend_ungated(can, cost) == cost

spend(can, cost) == FHE_select(can, cost, 0)

\* mutant: the new balance is computed from the balance at joining, not from
\* the one the last call committed
updatedBalance_stale(balance, spent) == FHE_sub(STARTING_GOLD, spent)

\* mutant: the operands of the subtraction are exchanged
updatedBalance_swapped(balance, spent) == FHE_sub(spent, balance)

updatedBalance(balance, spent) == FHE_sub(balance, spent)

\* mutant: the write replaces the player's board by one that holds only the
\* new tile
SetTile_wholeBoard(sender, position, value) ==
    [_buildings EXCEPT ![sender] =
        [q \in GridPositions |-> IF q = position THEN value ELSE 0]]

\* _buildings[msg.sender][position] = value
SetTile(sender, position, value) ==
    [_buildings EXCEPT ![sender][position] = value]

\* the body of placeBuilding after the NotJoined and InvalidPosition checks
\* (FHE.fromExternal is given a well-formed input with a matching proof, so
\* encryptedType is the submitted type, an euint8)
PlaceEffects(sender, position, buildingType) ==
    LET encryptedType == buildingType
        cost == _buildingCost(encryptedType)
        isValid == _isValidBuilding(encryptedType)
        existing == _buildings[sender][position]
        isEmpty == FHE_eq(existing, 0)
        balance == _balances[sender]
        hasFunds == FHE_ge(balance, cost)
        can == canPlace(isValid, isEmpty, hasFunds)
        status == _placementStatus(isValid, isEmpty, hasFunds, can)
    IN  /\ _buildings' = SetTile(sender, position,
                                  resultingBuilding(can, encryptedType, existing))
        /\ _balances' = SetBalance(sender, updatedBalance(balance, spend(can, cost)))
        /\ _lastPlacementStatus' =
               [_lastPlacementStatus EXCEPT ![sender] = status]
        /\ acl' = [acl EXCEPT ![sender].tiles[position] = Granted(sender),
                              ![sender].balance = Granted(sender),
                              ![sender].status = Granted(sender)]
        /\ events' = Append(events, [name |-> "BuildingPlaced",
                                     player |-> sender, position |-> position])
        /\ last' = PlaceCall(sender, position, buildingType, "none")
        /\ UNCHANGED _hasJoined

\* mutant: no NotJoined check
placeBuilding_noJoinCheck(sender, position, buildingType) ==
    IF position >= GRID_SIZE
    THEN Reverted(PlaceCall(sender, position, 0, "InvalidPosition"))
    ELSE PlaceEffects(sender, position, buildingType)

\* mutant: the position is checked before the joined flag
placeBuilding_positionFirst(sender, position, buildingType) ==
    IF position >= GRID_SIZE
    THEN Reverted(PlaceCall(sender, position, 0, "InvalidPosition"))
    ELSE IF ~_hasJoined[sender]
    THEN Reverted(PlaceCall(sender, 0, 0, "NotJoined"))
    ELSE PlaceEffects(sender, position, buildingType)

\* mutant: an invalid type is refused by a revert instead of a status
placeBuilding_requireValid(sender, position, buildingType) ==
    IF ~_hasJoined[sender]
    THEN Reverted(PlaceCall(sender, 0, 0, "NotJoined"))
    ELSE IF position >= GRID_SIZE
    THEN Reverted(PlaceCall(sender, position, 0, "InvalidPosition"))
    ELSE IF ~_isValidBuilding(buildingType)
    THEN Reverted(PlaceCall(sender, position, 0, "InvalidBuilding"))
    ELSE PlaceEffects(sender, position, buildingType)

placeBuilding(sender, position, buildingType) ==
    IF ~_hasJoined[sender]
    THEN Reverted(PlaceCall(sender, 0, 0, "NotJoined"))
    ELSE IF position >= GRID_SIZE
    THEN Reverted(PlaceCall(sender, position, 0, "InvalidPosition"))
    ELSE PlaceEffects(sender, position, buildingType)

(* The FHE library calls one placeBuilding makes, in execution order        *)
(* (arguments before the call they are passed to).  The three secret       *)
(* values are parameters: the contract has no way to branch on them.       *)

Ops_buildingCost ==
    <<"asEuint64">>
    \o <<"asEuint8", "eq", "asEuint64", "select">>
    \o <<"asEuint8", "eq", "asEuint64", "select">>
    \o <<"asEuint8", "eq", "asEuint64", "select">>
    \o <<"asEuint8", "eq", "asEuint64", "select">>

Ops_isValidBuilding ==
    <<"asEuint8", "eq", "asEuint8", "eq", "asEuint8", "eq", "asEuint8", "eq">>
    \o <<"or", "or", "or">>

Ops_placementStatus ==
    <<"asEuint8">>
    \o <<"asEbool", "eq", "asEuint8", "select">>
    \o <<"asEbool", "eq", "asEbool", "eq", "and">>
    \o <<"asEuint8", "select">>
    \o <<"asEbool", "eq", "asEbool", "eq", "and">>
    \o <<"asEbool", "eq", "and">>
    \o <<"asEuint8", "select">>
    \o <<"asEuint8", "select">>

\* mutant: an invalid type returns early, before tile and balance are touched
PlaceOps_shortCircuit(encryptedType, existing, balance) ==
    IF _isValidBuilding(encryptedType)
    THEN <<"fromExternal">> \o Ops_buildingCost \o Ops_isValidBuilding
         \o <<"asEuint8", "eq", "ge", "and", "and">>
         \o <<"select", "allowThis", "allow">>
         \o <<"asEuint64", "select", "sub", "allowThis", "allow">>
         \o Ops_placementStatus \o <<"allowThis", "allow">>
    ELSE <<"fromExternal">> \o Ops_isValidBuilding
         \o <<"asEuint8", "allowThis", "allow">>

PlaceOps(encryptedType, existing, balance) ==
    <<"fromExternal">> \o Ops_buildingCost \o Ops_isValidBuilding
    \o <<"asEuint8", "eq", "ge", "and", "and">>
    \o <<"select", "allowThis", "allow">>
    \o <<"asEuint64", "select", "sub", "allowThis", "allow">>
    \o Ops_placementStatus \o <<"allowThis", "allow">>

(* The stores and grants one transaction makes, in execution order.  A      *)
(* handle is named after the local variable that holds it.                  *)

StoreStep(kind, index, handle) ==
    [act |-> "store", kind |-> kind, index |-> index, handle |-> handle, to |-> "none"]

\* FHE.allowThis(handle); FHE.allow(handle, sender)
GrantSteps(handle, sender) ==
    <<[act |-> "allow", kind |-> "none", index |-> 0, handle |-> handle, to |-> This],
      [act |-> "allow", kind |-> "none", index |-> 0, handle |-> handle, to |-> sender]>>

RECURSIVE JoinSteps_tiles(_, _)
\* the for loop of joinGame, from index i on
JoinSteps_tiles(sender, i) ==
    IF i < GRID_SIZE
    THEN <<StoreStep("tile", i, "emptyTile")>> \o GrantSteps("emptyTile", sender)
         \o JoinSteps_tiles(sender, i + 1)
    ELSE <<>>

JoinSteps(sender) ==
    <<StoreStep("balance", 0, "startingGold")>> \o GrantSteps("startingGold", sender)
    \o JoinSteps_tiles(sender, 0)
    \o <<StoreStep("status", 0, "status")>> \o GrantSteps("status", sender)

\* mutant: the status is stored and never granted
PlaceSteps_statusUngranted(sender, position) ==
    <<StoreStep("tile", position, "resultingBuilding")>>
    \o GrantSteps("resultingBuilding", sender)
    \o <<StoreStep("balance", 0, "updatedBalance")>>
    \o GrantSteps("updatedBalance", sender)
    \o <<StoreStep("status", 0, "status")>>

PlaceSteps(sender, position) ==
    <<StoreStep("tile", position, "resultingBuilding")>>
    \o GrantSteps("resultingBuilding", sender)
    \o <<StoreStep("balance", 0, "updatedBalance")>>
    \o GrantSteps("updatedBalance", sender)
    \o <<StoreStep("status", 0, "status")>> \o GrantSteps("status", sender)

(* ---------------------------- view functions --------------------------- *)

\* a call of a view function: it writes nothing and hands back a value or an
\* error
StaticCall(call) ==
    /\ UNCHANGED <<store, events>>
    /\ last' = call

Returns(value) == [revert |-> "none", value |-> value]

ViewCall(op, player, position, result) ==
    [op |-> op, sender |-> "anyone", position |-> position, buildingType |-> 0,
     revert |-> result.revert, preTile |-> 0, preBalance |-> 0, preStatus |-> 0,
     repeat |-> FALSE, player |-> player, returned |-> result.value]

getBalance_returns(player) == Returns(_balances[player])

getBalance(player) ==
    StaticCall(ViewCall("getBalance", player, 0, getBalance_returns(player)))

getBuilding_returns(player, position) ==
    IF position >= GRID_SIZE
    THEN [revert |-> "InvalidPosition", value |-> position]
    ELSE Returns(_buildings[player][position])

getBuilding(player, position) ==
    StaticCall(ViewCall("getBuilding", player, position,
                        getBuilding_returns(player, position)))

\* a fresh memory array of GRID_SIZE zero handles
NewBoard == [i \in 0..(GRID_SIZE - 1) |-> 0]

RECURSIVE getBoard_loop_firstRow(_, _, _)
\* mutant: the loop stops after the first row
getBoard_loop_firstRow(player, board, i) ==
    IF i < GRID_WIDTH
    THEN getBoard_loop_firstRow(player, [board EXCEPT ![i] = _buildings[player][i]], i + 1)
    ELSE board

RECURSIVE getBoard_loop(_, _, _)
\* the for loop of getBoard, from index i on
getBoard_loop(player, board, i) ==
    IF i < GRID_SIZE
    THEN getBoard_loop(player, [board EXCEPT ![i] = _buildings[player][i]], i + 1)
    ELSE board

getBoard_returns(player) == Returns(getBoard_loop(player, NewBoard, 0))

getBoard(player) ==
    StaticCall(ViewCall("getBoard", player, 0, getBoard_returns(player)))

getLastPlacementStatus_returns(player) == Returns(_lastPlacementStatus[player])

getLastPlacementStatus(player) ==
    StaticCall(ViewCall("getLastPlacementStatus", player, 0,
                        getLastPlacementStatus_returns(player)))

hasJoined_returns(player) == Returns(_hasJoined[player])

hasJoined(player) ==
    StaticCall(ViewCall("hasJoined", player, 0, hasJoined_returns(player)))

(* ---------------------------- specification ---------------------------- *)

\* a transaction is sent while the log has room (reverts add nothing to it)
Next ==
    \/ \E sender \in Players :
          Len(events) < MaxEvents /\ joinGame(sender)
    \/ \E sender \in Players, position \in PositionInputs,
          buildingType \in BuildingTypeInputs :
             Len(events) < MaxEvents /\ placeBuilding(sender, position, buildingType)

Spec == Init /\ [][Next]_vars

(* One player (alice) on three tiles and one out-of-range position, with a  *)
(* longer log: the same contract from the same initial state, followed      *)
(* further along one player's game.                                         *)

SoloPositions == {0, GRID_WIDTH + 1, GRID_SIZE - 1, GRID_SIZE}

NextSolo ==
    \/ Len(events) < MaxSoloEvents /\ joinGame("alice")
    \/ \E position \in SoloPositions, buildingType \in BuildingTypeInputs :
          Len(events) < MaxSoloEvents /\ placeBuilding("alice", position, buildingType)

SpecSolo == Init /\ [][NextSolo]_vars

(* One player (alice) on the two corner tiles and the centre tile, with the   *)
(* empty type, the cheapest and the dearest building and the largest value   *)
(* of an euint8: a state space small enough to try every input in every     *)
(* state.                                                                    *)

MaxTotalEvents == 3

TotalPositions == {0, GRID_WIDTH + 1, GRID_SIZE - 1}

TotalTypes == {0, 1, 4, 255}

NextTotal ==
    \/ Len(events) < MaxTotalEvents /\ joinGame("alice")
    \/ \E position \in TotalPositions, buildingType \in TotalTypes :
          Len(events) < MaxTotalEvents /\ placeBuilding("alice", position, buildingType)

SpecTotal == Init /\ [][NextTotal]_vars

(* The transactions of SpecTotal with the view functions called in between, *)
(* for either player and for positions inside and outside the grid.         *)

MaxReadEvents == 3

ReadPositions == PositionInputs \cup {255}

NextRead ==
    \/ Len(events) < MaxReadEvents /\ joinGame("alice")
    \/ \E position \in TotalPositions, buildingType \in TotalTypes :
          Len(events) < MaxReadEvents /\ placeBuilding("alice", position, buildingType)
    \/ \E player \in Players : getBalance(player)
    \/ \E player \in Players, position \in ReadPositions : getBuilding(player, position)
    \/ \E player \in Players : getBoard(player)
    \/ \E player \in Players : getLastPlacementStatus(player)
    \/ \E player \in Players : hasJoined(player)

SpecRead == Init /\ [][NextRead]_vars

(* Both players on one tile and one out-of-range position, with the empty   *)
(* type and the dearest building: a state space small enough to run every   *)
(* pair of transactions of the two players in both orders from every state. *)

MaxPairEvents == 4

PairPositions == {0, GRID_SIZE}

PairTypes == {0, 4}

NextPair ==
    \/ \E sender \in Players :
          Len(events) < MaxPairEvents /\ joinGame(sender)
    \/ \E sender \in Players, position \in PairPositions, buildingType \in PairTypes :
          Len(events) < MaxPairEvents /\ placeBuilding(sender, position, buildingType)

SpecPair == Init /\ [][NextPair]_vars

(* One player (alice) joins and then goes through the tiles from 0 upwards,  *)
(* submitting for each an empty type, a building of 400 or the most         *)
(* expensive building: the same contract from the same initial state,       *)
(* followed until the board is full.                                        *)

FillTypes == {0, 3, 4}

NextFill ==
    \/ Len(events) < MaxFillEvents /\ joinGame("alice")
    \/ \E buildingType \in FillTypes :
          /\ Len(events) < MaxFillEvents
          /\ Len(events) >= 1
          /\ placeBuilding("alice", Len(events) - 1, buildingType)

SpecFill == Init /\ [][NextFill]_vars

(* The placement rules over their whole input domain: placeBuilding applied *)
(* to any stored balance and tile value, not only to those joinGame and     *)
(* earlier placements can leave behind.                                     *)

BalanceInputs ==
    {0, STARTING_GOLD} \cup {_buildingCost(t) : t \in 1..4}
                       \cup {_buildingCost(t) - 1 : t \in 1..4}
TileInputs == 0..4

InitEngine ==
    /\ _hasJoined = [a \in Players |-> TRUE]
    /\ \E balance \in BalanceInputs : _balances = [a \in Players |-> balance]
    /\ \E tile \in TileInputs :
          _buildings = [a \in Players |-> [p \in GridPositions |-> tile]]
    /\ _lastPlacementStatus = [a \in Players |-> STATUS_SUCCESS]
    /\ acl = [a \in Players |->
                [balance |-> Granted(a), status |-> Granted(a),
                 tiles |-> [p \in GridPositions |-> Granted(a)]]]
    /\ events = <<>>
    /\ last = NoCall

NextEngine ==
    \E sender \in Players, position \in PositionInputs,
       buildingType \in BuildingTypeInputs :
          Len(events) < MaxEngineCalls /\ placeBuilding(sender, position, buildingType)

SpecEngine == InitEngine /\ [][NextEngine]_vars

(* ------------------------------- claims -------------------------------- *)

\* the building catalog as documented: type 1..4 costs 100, 200, 400, 1000
CatalogCost(t) ==
    CASE t = 1 -> 100 [] t = 2 -> 200 [] t = 3 -> 400 [] t = 4 -> 1000
      [] OTHER -> 0

ValidTypes == 1..4

\* the last transaction was a placeBuilding that passed the structural checks
Placed == last.op = "placeBuilding" /\ last.revert = "none"

TileNow == _buildings[last.sender][last.position]
BalanceNow == _balances[last.sender]
StatusNow == _lastPlacementStatus[last.sender]

\* the stored values of one player
Account(a) == <<_hasJoined[a], _balances[a], _buildings[a], _lastPlacementStatus[a]>>

\* C1: a valid type on an empty tile with balance >= cost is placed: the tile
\* becomes the type, the balance drops by the catalog cost, the status is SUCCESS.
C1_PlaceSucceeds ==
    (/\ Placed
     /\ last.buildingType \in ValidTypes
     /\ last.preTile = 0
     /\ last.preBalance >= CatalogCost(last.buildingType))
    => /\ TileNow = last.buildingType
       /\ BalanceNow = last.preBalance - CatalogCost(last.buildingType)
       /\ StatusNow = STATUS_SUCCESS

\* the most expensive building has just been bought on the last tile
C1_Witness ==
    /\ Placed
    /\ last.buildingType = 4
    /\ last.position = GRID_SIZE - 1
    /\ last.preTile = 0
    /\ last.preBalance >= CatalogCost(4)

\* C2: a type outside 1..4 changes neither tile nor balance and sets the status
\* to INVALID_BUILDING, whatever the tile holds and whatever the balance is.
C2_InvalidTypeRejected ==
    (Placed /\ last.buildingType \notin ValidTypes)
    => /\ TileNow = last.preTile
       /\ BalanceNow = last.preBalance
       /\ StatusNow = STATUS_INVALID_BUILDING

\* type 0 has just been submitted for an empty tile (the cost-of-zero case)
C2_Witness ==
    /\ Placed
    /\ last.buildingType = 0
    /\ last.preTile = 0

\* C3: a valid type on an occupied tile changes neither tile nor balance and
\* sets the status to TILE_TAKEN.
C3_OccupiedTileRejected ==
    (Placed /\ last.buildingType \in ValidTypes /\ last.preTile # 0)
    => /\ TileNow = last.preTile
       /\ BalanceNow = last.preBalance
       /\ StatusNow = STATUS_TILE_TAKEN

\* a different valid type has just been submitted for an occupied tile
C3_Witness ==
    /\ Placed
    /\ last.buildingType \in ValidTypes
    /\ last.preTile \in ValidTypes
    /\ last.preTile # last.buildingType

\* C4: a valid type whose cost exceeds the balance, on an empty tile, changes
\* neither tile nor balance and sets the status to INSUFFICIENT_FUNDS.
C4_NoFundsRejected ==
    (/\ Placed
     /\ last.buildingType \in ValidTypes
     /\ last.preTile = 0
     /\ CatalogCost(last.buildingType) > last.preBalance)
    => /\ TileNow = last.preTile
       /\ BalanceNow = last.preBalance
       /\ StatusNow = STATUS_NO_FUNDS

\* a building has just been refused for being one gold short
C4_Witness ==
    /\ Placed
    /\ last.buildingType \in ValidTypes
    /\ last.preTile = 0
    /\ last.preBalance = CatalogCost(last.buildingType) - 1

\* C5: tile, balance and status agree on one decision: the status is SUCCESS
\* exactly when the type is valid, the tile was empty and the funds sufficed,
\* then the tile is the type and the balance dropped by its cost; and the
\* status is not SUCCESS exactly when tile and balance are both unchanged.
C5_OneDecision ==
    Placed =>
        LET accepted == /\ last.buildingType \in ValidTypes
                        /\ last.preTile = 0
                        /\ last.preBalance >= CatalogCost(last.buildingType)
        IN  /\ (StatusNow = STATUS_SUCCESS) <=> accepted
            /\ accepted => /\ TileNow = last.buildingType
                           /\ BalanceNow =
                                last.preBalance - CatalogCost(last.buildingType)
            /\ (StatusNow # STATUS_SUCCESS)
                  <=> (TileNow = last.preTile /\ BalanceNow = last.preBalance)

\* a rejected placement right after an accepted one by the same player
C5_Witness ==
    /\ Placed
    /\ StatusNow # STATUS_SUCCESS
    /\ last.preStatus = STATUS_SUCCESS
    /\ BalanceNow < STARTING_GOLD

\* C6: the first joinGame of a player succeeds; every later one reverts with
\* AlreadyJoined and leaves the player's flag, balance, tiles and status as
\* they were.
C6_JoinOnce ==
    [][\A a \in Players :
          (last'.op = "joinGame" /\ last'.sender = a) =>
              IF _hasJoined[a]
              THEN /\ last'.revert = "AlreadyJoined"
                   /\ Account(a)' = Account(a)
              ELSE /\ last'.revert = "none"
                   /\ _hasJoined'[a]]_vars

\* a player who has already spent gold has just tried to join again
C6_Witness ==
    /\ last.op = "joinGame"
    /\ last.revert = "AlreadyJoined"
    /\ \E p \in GridPositions : _buildings[last.sender][p] # 0
    /\ _balances[last.sender] < STARTING_GOLD

\* C7: right after a successful joinGame the player has joined, holds 10,000
\* gold, nine empty tiles at positions 0..8 and status SUCCESS.
C7_JoinInitialises ==
    (last.op = "joinGame" /\ last.revert = "none")
    => /\ _hasJoined[last.sender] = TRUE
       /\ _balances[last.sender] = 10000
       /\ DOMAIN _buildings[last.sender] = 0..8
       /\ \A p \in 0..8 : _buildings[last.sender][p] = 0
       /\ _lastPlacementStatus[last.sender] = 0

\* the second player has just joined after the first one played
C7_Witness ==
    /\ last.op = "joinGame"
    /\ last.revert = "none"
    /\ \E b \in Players \ {last.sender} : _balances[b] \notin {0, STARTING_GOLD}

\* C8: placeBuilding by a player who has not joined reverts with NotJoined;
\* with a position outside 0..8 it reverts with InvalidPosition; a reverted
\* placeBuilding changes no stored value of any player and emits no event.
C8_StructuralFailures ==
    [][(last'.op = "placeBuilding") =>
          /\ ~_hasJoined[last'.sender] => last'.revert = "NotJoined"
          /\ (_hasJoined[last'.sender] /\ last'.revert # "none")
                => /\ last'.revert = "InvalidPosition"
                   /\ last'.position \notin GridPositions
          /\ last'.revert = "none" => last'.position \in GridPositions
          /\ last'.revert # "none" => UNCHANGED <<store, events>>]_vars

\* a player who owns buildings has just been refused an out-of-range position
C8_Witness ==
    /\ last.op = "placeBuilding"
    /\ last.revert = "InvalidPosition"
    /\ last.position = GRID_SIZE
    /\ \E p \in GridPositions : _buildings[last.sender][p] # 0

\* C9: repeating a rejected placeBuilding call (same player, position, type)
\* changes neither the balance nor any tile and yields the same status.
C9_RejectionIdempotent ==
    [][(/\ Placed
        /\ StatusNow # STATUS_SUCCESS
        /\ last'.op = "placeBuilding"
        /\ last'.revert = "none"
        /\ last'.sender = last.sender
        /\ last'.position = last.position
        /\ last'.buildingType = last.buildingType)
       => /\ _balances' = _balances
          /\ _buildings' = _buildings
          /\ _lastPlacementStatus' = _lastPlacementStatus]_vars

\* a call rejected for an occupied tile has just been repeated
C9_Witness ==
    /\ Placed
    /\ last.repeat
    /\ last.preStatus = STATUS_TILE_TAKEN
    /\ BalanceNow < STARTING_GOLD

\* C10: a joinGame or placeBuilding of one player, accepted, rejected or
\* reverted, changes no flag, balance, tile or status of any other player.
C10_Isolation ==
    [][\A b \in Players : b # last'.sender => Account(b)' = Account(b)]_vars

\* a placement has just been accepted while another player holds an account
C10_Witness ==
    /\ Placed
    /\ StatusNow = STATUS_SUCCESS
    /\ \E b \in Players \ {last.sender} : _hasJoined[b]

\* C11: the balance is never negative: the euint64 subtraction in
\* placeBuilding never wraps (what it takes off is between 0 and the balance
\* it read), and every player's balance lies in 0..10,000.
C11_BalanceInRange ==
    /\ \A a \in Players : _balances[a] \in 0..10000
    /\ Placed => (last.preBalance - BalanceNow) \in 0..last.preBalance

\* the ninth building of 1000 gold has just been paid for
C11_Witness ==
    /\ Placed
    /\ StatusNow = STATUS_SUCCESS
    /\ last.position = GRID_SIZE - 1
    /\ BalanceNow = 1000

\* C12: tiles are append-only: a tile that holds a building keeps its value
\* through every later joinGame and placeBuilding of any player.
C12_TilesAppendOnly ==
    [][\A a \in Players, p \in GridPositions :
          _buildings[a][p] # 0 => _buildings'[a][p] = _buildings[a][p]]_vars

\* another type, valid or not, has just been submitted for a built tile
C12_Witness ==
    /\ Placed
    /\ last.preTile # 0
    /\ last.buildingType # last.preTile
    /\ TileNow = last.preTile

\* C13: each joined flag starts false, becomes true only by a successful
\* joinGame of that player, never becomes false again, and is changed by no
\* placeBuilding.
C13_JoinedMonotone ==
    /\ \A a \in Players : _hasJoined[a] = FALSE
    /\ [][(\A a \in Players :
               /\ _hasJoined[a] => _hasJoined'[a]
               /\ (~_hasJoined[a] /\ _hasJoined'[a])
                     => (/\ last'.op = "joinGame"
                         /\ last'.sender = a
                         /\ last'.revert = "none"))
           /\ (last'.op = "placeBuilding" => _hasJoined' = _hasJoined)]_vars

\* one player has joined and played while the other has still not joined
C13_Witness ==
    /\ Placed
    /\ _hasJoined[last.sender]
    /\ \E b \in Players : ~_hasJoined[b]
    /\ Len(events) = MaxEvents

\* C14: after every completed joinGame and placeBuilding, the balance, each of
\* the nine tiles and the status stored for a joined player can be decrypted
\* by that player and by the contract itself.
C14_StoredValuesGranted ==
    \A a \in Players :
        _hasJoined[a] =>
            /\ {a, This} \subseteq acl[a].balance
            /\ {a, This} \subseteq acl[a].status
            /\ \A p \in GridPositions : {a, This} \subseteq acl[a].tiles[p]

\* a placement has just replaced the tile, balance and status of a player
C14_Witness ==
    /\ Placed
    /\ _hasJoined[last.sender]
    /\ TileNow # last.preTile
    /\ BalanceNow # last.preBalance
    /\ acl[last.sender].tiles[last.position] = {This, last.sender}

\* C15: a semantic rejection cannot be told from an acceptance in plaintext:
\* for a joined player and a position in 0..8 the call never fails, the event
\* is BuildingPlaced(player, position), no joined flag changes and the FHE
\* calls made are those of a reference placement (type 1 on an empty tile
\* with the starting balance), whatever the type, the tile and the balance.
C15_RejectionNotObservable ==
    [][(last'.op = "placeBuilding" /\ _hasJoined[last'.sender]) =>
          /\ last'.revert # "none" => last'.position \notin GridPositions
          /\ last'.revert = "none" =>
                /\ events' = Append(events,
                       [name |-> "BuildingPlaced", player |-> last'.sender,
                        position |-> last'.position])
                /\ _hasJoined' = _hasJoined
                /\ PlaceOps(last'.buildingType, last'.preTile, last'.preBalance)
                      = PlaceOps(1, 0, STARTING_GOLD)]_vars

\* an invalid type has just been rejected on a built tile after gold was spent
C15_Witness ==
    /\ Placed
    /\ StatusNow = STATUS_INVALID_BUILDING
    /\ last.preTile # 0
    /\ last.preBalance < STARTING_GOLD

\* the log of: join, then n placements at position 4, all by alice
ScenarioLog(n) ==
    <<[name |-> "PlayerJoined", player |-> "alice"]>>
    \o [i \in 1..n |-> [name |-> "BuildingPlaced", player |-> "alice", position |-> 4]]

\* the third placement of the scenario has just run: type 3 at position 4,
\* which held a 2, after a placement that ended INVALID_BUILDING
ScenarioEnd ==
    /\ events = ScenarioLog(3)
    /\ Placed
    /\ last.buildingType = 3
    /\ last.preTile = 2
    /\ last.preStatus = 1

\* C16: the status of a placement is the first failing condition in the order
\* invalid type, tile occupied, insufficient funds (SUCCESS if none fails); and
\* join, place(2, 4), place(invalid, 4), place(3, 4) gives SUCCESS,
\* INVALID_BUILDING, TILE_TAKEN with tile 4 = 2 and balance 9800 after each.
C16_StatusPrecedence ==
    /\ Placed =>
          StatusNow = IF last.buildingType \notin ValidTypes THEN 1
                      ELSE IF last.preTile # 0 THEN 2
                      ELSE IF last.preBalance < CatalogCost(last.buildingType) THEN 3
                      ELSE 0
    /\ (events = ScenarioLog(1) /\ Placed /\ last.buildingType = 2)
          => (_buildings["alice"][4] = 2 /\ _balances["alice"] = 9800
               /\ _lastPlacementStatus["alice"] = 0)
    /\ (events = ScenarioLog(2) /\ Placed /\ last.buildingType = 5 /\ last.preTile = 2)
          => (_buildings["alice"][4] = 2 /\ _balances["alice"] = 9800
               /\ _lastPlacementStatus["alice"] = 1)
    /\ ScenarioEnd
          => (_buildings["alice"][4] = 2 /\ _balances["alice"] = 9800
               /\ _lastPlacementStatus["alice"] = 2)

C16_Witness == ScenarioEnd

\* every value an externalEuint8 can carry
UInt8 == 0..255

\* placeBuilding(sender, position, buildingType) runs to its end: no revert,
\* the three stored values are written and granted, the status is one of the
\* four codes and the BuildingPlaced event is logged
Completes(sender, position, buildingType) ==
    /\ placeBuilding(sender, position, buildingType)
    /\ last'.revert = "none"
    /\ _lastPlacementStatus'[sender] \in STATUS_SUCCESS..STATUS_NO_FUNDS
    /\ _buildings'[sender][position] \in {_buildings[sender][position], buildingType}
    /\ _balances'[sender] \in {_balances[sender],
                               _balances[sender] - CatalogCost(buildingType)}
    /\ acl'[sender].tiles[position] = {This, sender}
    /\ acl'[sender].balance = {This, sender}
    /\ acl'[sender].status = {This, sender}
    /\ events' = Append(events, [name |-> "BuildingPlaced",
                                 player |-> sender, position |-> position])

\* C17: in every reachable state, placeBuilding by a joined player with a
\* position in 0..8 completes for every type 0..255: it does not revert, it
\* commits tile, balance and status, and the outcome is told by the status alone.
C17_RuleEngineTotal ==
    \A sender \in Players, position \in GridPositions, buildingType \in UInt8 :
        _hasJoined[sender] => ENABLED Completes(sender, position, buildingType)

C17_Witness ==
    /\ Placed
    /\ last.buildingType = 255
    /\ last.preTile # 0
    /\ StatusNow = STATUS_INVALID_BUILDING
    /\ BalanceNow = last.preBalance

Views == {"getBalance", "getBuilding", "getBoard", "getLastPlacementStatus", "hasJoined"}

\* C18: the five view functions change no stored value of any player;
\* getBuilding fails with InvalidPosition for every position >= 9 (and only
\* then); getBoard returns exactly 9 values, entry i being the value
\* getBuilding returns for position i, for i in 0..8.
C18_ViewsReadOnly ==
    /\ [][(last'.op \in Views) => (store' = store /\ events' = events)]_vars
    /\ [](last.op = "getBuilding" =>
            /\ (last.position >= 9) => (last.revert = "InvalidPosition")
            /\ (last.position < 9) =>
                  (last.revert = "none"
                     /\ last.returned = _buildings[last.player][last.position]))
    /\ [](last.op = "getBoard" =>
            /\ last.revert = "none"
            /\ Cardinality(DOMAIN last.returned) = 9
            /\ DOMAIN last.returned = 0..8
            /\ \A i \in 0..8 :
                  last.returned[i] = getBuilding_returns(last.player, i).value)
    /\ [](last.op \in {"getBalance", "getLastPlacementStatus", "hasJoined"}
            => last.revert = "none")

C18_Witness ==
    /\ last.op = "getBoard"
    /\ last.player = "alice"
    /\ \E i \in GRID_WIDTH..(GRID_SIZE - 1) : last.returned[i] # 0
    /\ \E i \in 0..(GRID_SIZE - 1) : last.returned[i] = 0

\* a placeBuilding call that ended in SUCCESS has just been submitted again by
\* the same player with the same position and type
Resubmitted ==
    /\ Placed
    /\ last.repeat
    /\ last.preStatus = STATUS_SUCCESS
    /\ last.buildingType \in ValidTypes

\* C19: after a placeBuilding(p, t) with a valid t that ended in SUCCESS, the
\* same call submitted again ends in TILE_TAKEN and changes neither the tile at
\* p nor the balance: the player is never charged twice.
C19_RetrySafe ==
    Resubmitted =>
        /\ StatusNow = STATUS_TILE_TAKEN
        /\ TileNow = last.preTile
        /\ TileNow = last.buildingType
        /\ BalanceNow = last.preBalance

C19_Witness == Resubmitted /\ last.position = GRID_SIZE - 1 /\ last.buildingType = 4

RECURSIVE CostOfTiles(_, _)
\* the catalogue cost of the buildings on tiles 0..n-1 of a board
CostOfTiles(board, n) ==
    IF n = 0 THEN 0 ELSE CostOfTiles(board, n - 1) + CatalogCost(board[n - 1])

\* the second of two placements accepted one after the other
TwoAccepted ==
    /\ Placed
    /\ StatusNow = STATUS_SUCCESS
    /\ last.preStatus = STATUS_SUCCESS
    /\ last.preBalance < STARTING_GOLD

\* C20: each placeBuilding reads tile and balance as the previous call of the
\* same player committed them and commits tile, balance and status in one
\* step; no update is lost: the balance of a joined player is the starting
\* balance less the cost of every building accepted so far.
C20_NoLostUpdate ==
    /\ [](\A a \in Players : _hasJoined[a] =>
             _balances[a] = STARTING_GOLD - CostOfTiles(_buildings[a], GRID_SIZE))
    /\ [][(last'.op = "placeBuilding" /\ last'.revert = "none") =>
            (LET s == last'.sender
                 p == last'.position
                 t == last'.buildingType
                 accepted == /\ t \in ValidTypes
                             /\ _buildings[s][p] = 0
                             /\ _balances[s] >= CatalogCost(t)
             IN  /\ (_lastPlacementStatus'[s] = STATUS_SUCCESS) = accepted
                 /\ _buildings'[s][p] = (IF accepted THEN t ELSE _buildings[s][p])
                 /\ _balances'[s] = (IF accepted THEN _balances[s] - CatalogCost(t)
                                                ELSE _balances[s])
                 /\ \A q \in GridPositions \ {p} : _buildings'[s][q] = _buildings[s][q])]_vars

C20_Witness == TwoAccepted /\ BalanceNow = last.preBalance - CatalogCost(last.buildingType)

\* the transactions one player can send under SpecPair
PairOps ==
    {[f |-> "joinGame", position |-> 0, buildingType |-> 0]}
    \cup {[f |-> "placeBuilding", position |-> p, buildingType |-> t] :
             p \in PairPositions, t \in PairTypes}

Send(sender, o) ==
    IF o.f = "joinGame" THEN joinGame(sender)
    ELSE placeBuilding(sender, o.position, o.buildingType)

\* what a transaction of player y leaves behind: y's stored values and the
\* error returned, if any
Outcome(y) ==
    <<_hasJoined[y], _balances[y], _buildings[y], _lastPlacementStatus[y], last.revert>>

\* the values component k of Outcome(y) can take after transaction o
OutcomeValues(y, o, k) ==
    CASE k = 1 -> BOOLEAN
      [] k = 2 -> {_balances[y], STARTING_GOLD, _balances[y] - CatalogCost(o.buildingType)}
      [] k = 3 -> {_buildings[y], [p \in GridPositions |-> 0]}
                  \cup (IF o.position \in GridPositions
                        THEN {[_buildings[y] EXCEPT ![o.position] = o.buildingType]}
                        ELSE {})
      [] k = 4 -> STATUS_SUCCESS..STATUS_NO_FUNDS
      [] k = 5 -> {"none", "AlreadyJoined", "NotJoined", "InvalidPosition"}

\* C21: transactions of two distinct players commute: from any reachable
\* state, a transaction b of player y gives y the same stored values and the
\* same outcome whether it runs first or after a transaction a of player x,
\* and neither touches the other player's values; so both orders end in the
\* same stored state with the same per-transaction outcomes.
C21_DistinctPlayersCommute ==
    \A x \in Players : \A y \in Players \ {x} :
      \A a \in PairOps, b \in PairOps :
        \A k \in 1..5 :
          /\ \E v \in OutcomeValues(y, b, k) : ENABLED (Send(y, b) /\ Outcome(y)'[k] = v)
          /\ \A v \in OutcomeValues(y, b, k) :
                (ENABLED (Send(y, b) /\ Outcome(y)'[k] = v))
                  => ENABLED (/\ Send(x, a)
                              /\ Account(y)' = Account(y)
                              /\ (ENABLED (/\ Send(y, b)
                                           /\ Outcome(y)'[k] = v
                                           /\ Account(x)' = Account(x)))')

\* both players have joined and each has had a building accepted, the one
\* right after the other
C21_Witness ==
    /\ \A a \in Players : _hasJoined[a]
    /\ Placed
    /\ StatusNow = STATUS_SUCCESS
    /\ \E b \in Players \ {last.sender} :
          /\ _balances[b] < STARTING_GOLD
          /\ events[Len(events) - 1] =
                [name |-> "BuildingPlaced", player |-> b, position |-> 0]

\* C22: gold is conserved: for every joined player, the balance plus the
\* catalogue cost of the buildings on the 9 tiles is 10000.
C22_GoldConserved ==
    \A a \in Players :
        _hasJoined[a] => _balances[a] + CostOfTiles(_buildings[a], 9) = 10000

\* the last tile of a full board has just been built on
C22_Witness ==
    /\ Placed
    /\ StatusNow = STATUS_SUCCESS
    /\ \A p \in GridPositions : _buildings[last.sender][p] # 0
    /\ \E p \in GridPositions : _buildings[last.sender][p] = 3

\* C23: funds never run out: every joined player's balance is at least 1000,
\* hasFunds was true in every placeBuilding that ran, and the status of a
\* joined player is never INSUFFICIENT_FUNDS.
C23_FundsNeverRunOut ==
    /\ \A a \in Players :
          _hasJoined[a] => (/\ _balances[a] >= 1000
                            /\ _lastPlacementStatus[a] # 3)
    /\ Placed => FHE_ge(last.preBalance, _buildingCost(last.buildingType))

\* the dearest building has just been accepted on the last free tile of a
\* board that holds the dearest building on every other tile
C23_Witness ==
    /\ Placed
    /\ StatusNow = STATUS_SUCCESS
    /\ last.preBalance = 2000
    /\ \A p \in GridPositions : _buildings[last.sender][p] = 4

\* the three encrypted booleans of the placement that has just run
LastIsValid == _isValidBuilding(last.buildingType)

LastIsEmpty == FHE_eq(last.preTile, 0)

LastHasFunds == FHE_ge(last.preBalance, _buildingCost(last.buildingType))

\* C24: in the status derivation, for every combination of isValid, isEmpty
\* and hasFunds, at most one of the three override conditions is true, the
\* status after the three overrides is SUCCESS exactly when canPlace is true,
\* and so the last select on canPlace does not change the status.
C24_FinalOverrideRedundant ==
    /\ \A isValid \in BOOLEAN, isEmpty \in BOOLEAN, hasFunds \in BOOLEAN :
          LET can == canPlace(isValid, isEmpty, hasFunds)
              conditions == <<invalidType(isValid),
                              tileBlocked(isValid, isEmpty),
                              lacksFunds(isValid, isEmpty, hasFunds)>>
              before == statusOverrides(isValid, isEmpty, hasFunds)
          IN  /\ Cardinality({i \in 1..3 : conditions[i]}) <= 1
              /\ (before = STATUS_SUCCESS) = can
              /\ _placementStatus(isValid, isEmpty, hasFunds, can) = before
    /\ Placed => StatusNow = statusOverrides(LastIsValid, LastIsEmpty, LastHasFunds)

\* a valid type was refused on an occupied tile by a player who could not
\* have paid for it either
C24_Witness ==
    /\ Placed
    /\ LastIsValid
    /\ ~LastIsEmpty
    /\ ~LastHasFunds
    /\ StatusNow = STATUS_TILE_TAKEN

\* C25: for every type 0..255 the select chain gives 100 for 1, 200 for 2, 400
\* for 3, 1000 for 4 and 0 for every other value, the validity predicate is
\* true exactly for 1..4, and so the cost is 0 exactly when the type is
\* invalid; a placement on an empty tile is charged and judged accordingly.
C25_CostAndValidity ==
    /\ \A t \in UInt8 :
          /\ _buildingCost(t) = (CASE t = 1 -> 100 [] t = 2 -> 200 [] t = 3 -> 400
                                   [] t = 4 -> 1000 [] OTHER -> 0)
          /\ _isValidBuilding(t) = (t \in 1..4)
          /\ (_buildingCost(t) = 0) = ~_isValidBuilding(t)
    /\ (Placed /\ last.preTile = 0) =>
          /\ last.preBalance - BalanceNow = _buildingCost(last.buildingType)
          /\ (StatusNow = STATUS_INVALID_BUILDING) = (last.buildingType \notin 1..4)
          /\ (BalanceNow = last.preBalance) = (last.buildingType \notin 1..4)

\* the largest euint8 has just been submitted for an empty tile
C25_Witness ==
    /\ Placed
    /\ last.buildingType = 255
    /\ last.preTile = 0
    /\ last.preBalance < STARTING_GOLD
    /\ TileNow = 0

\* C26: the structural checks of placeBuilding are ordered: a player who has
\* not joined gets NotJoined whatever the position, also outside 0..8;
\* InvalidPosition is returned only to players who have joined, and to them
\* for every position outside 0..8.
C26_ChecksOrdered ==
    /\ \A sender \in Players, position \in ReadPositions,
          buildingType \in BuildingTypeInputs :
          ENABLED (/\ placeBuilding(sender, position, buildingType)
                   /\ last'.revert =
                         (IF ~_hasJoined[sender] THEN "NotJoined"
                          ELSE IF position \notin 0..8 THEN "InvalidPosition"
                          ELSE "none"))
    /\ (last.op = "placeBuilding" /\ last.revert = "InvalidPosition")
          => _hasJoined[last.sender]
    /\ (last.op = "placeBuilding" /\ last.revert = "NotJoined")
          => ~_hasJoined[last.sender]

\* a player who has not joined has just been refused, while the other player
\* is in the game
C26_Witness ==
    /\ last.op = "placeBuilding"
    /\ last.revert = "NotJoined"
    /\ ~_hasJoined[last.sender]
    /\ \E b \in Players : _hasJoined[b]

PlayerJoined(a) == [name |-> "PlayerJoined", player |-> a]

BuildingPlaced(a, p) == [name |-> "BuildingPlaced", player |-> a, position |-> p]

\* C27: at most one PlayerJoined event per player, emitted exactly when a
\* joinGame succeeds; every BuildingPlaced event has a position in 0..8 and
\* comes after the PlayerJoined event of its player; and a BuildingPlaced event
\* is emitted for every placeBuilding that passes the structural checks,
\* accepted or rejected, and for no other call.
C27_EventOrdering ==
    /\ [](\A a \in Players :
            /\ Cardinality({i \in 1..Len(events) : events[i] = PlayerJoined(a)}) <= 1
            /\ \A i \in 1..Len(events) :
                  (events[i].name = "BuildingPlaced" /\ events[i].player = a)
                    => (/\ events[i].position \in 0..8
                        /\ \E j \in 1..(i - 1) : events[j] = PlayerJoined(a)))
    /\ [][(events' =
              (IF last'.op = "joinGame" /\ last'.revert = "none"
               THEN Append(events, PlayerJoined(last'.sender))
               ELSE IF (/\ last'.op = "placeBuilding"
                        /\ _hasJoined[last'.sender]
                        /\ last'.position \in 0..8)
               THEN Append(events, BuildingPlaced(last'.sender, last'.position))
               ELSE events))
           /\ ((last'.op = "joinGame" /\ last'.revert = "none")
                 = (last'.op = "joinGame" /\ ~_hasJoined[last'.sender]))]_vars

\* the log holds a rejected placement of one player after the joining of both
C27_Witness ==
    /\ Len(events) = 4
    /\ Placed
    /\ StatusNow # STATUS_SUCCESS
    /\ events[Len(events)] = BuildingPlaced(last.sender, last.position)
    /\ \A a \in Players : \E i \in 1..3 : events[i] = PlayerJoined(a)

\* C28: placeBuilding at position p changes at most the tile at p, the
\* balance and the status of its sender: the sender's eight other tiles and
\* joined flag stay as they were, whether the placement is accepted, rejected
\* or reverted.
C28_PlacementFrame ==
    [][(last'.op = "placeBuilding") =>
          (/\ \A q \in GridPositions \ {last'.position} :
                 _buildings'[last'.sender][q] = _buildings[last'.sender][q]
           /\ _hasJoined' = _hasJoined
           /\ (last'.revert # "none") => (store' = store))]_vars

\* a placement has just been rejected on a board that holds a building on
\* two other tiles
C28_Witness ==
    /\ Placed
    /\ StatusNow = STATUS_INVALID_BUILDING
    /\ last.preStatus = STATUS_SUCCESS
    /\ Cardinality({q \in GridPositions \ {last.position} :
                       _buildings[last.sender][q] # 0}) = 2

\* C29: every tile of every joined player holds a value in {0,1,2,3,4},
\* whatever types 0..255 were submitted, and every joined player's status is
\* in {0,1,2,3}.
C29_StoredValuesInRange ==
    \A a \in Players : _hasJoined[a] =>
        /\ \A p \in GridPositions : _buildings[a][p] \in {0, 1, 2, 3, 4}
        /\ _lastPlacementStatus[a] \in {0, 1, 2, 3}

\* type 255 has just been submitted for an empty tile of a board that holds
\* a building
C29_Witness ==
    /\ Placed
    /\ last.buildingType = 255
    /\ last.preTile = 0
    /\ \E q \in GridPositions : _buildings[last.sender][q] = 4

\* the stores and grants of the transaction that has just run
LastSteps ==
    IF last.revert # "none" THEN <<>>
    ELSE IF last.op = "joinGame" THEN JoinSteps(last.sender)
    ELSE IF last.op = "placeBuilding" THEN PlaceSteps(last.sender, last.position)
    ELSE <<>>

\* who holds a grant on the handle after the first n steps
GrantedAfter(steps, n, handle) ==
    {steps[j].to : j \in {k \in 1..n : steps[k].act = "allow" /\ steps[k].handle = handle}}

\* the access list the model keeps for a stored value
AclOf(sender, kind, index) ==
    CASE kind = "balance" -> acl[sender].balance
      [] kind = "status" -> acl[sender].status
      [] kind = "tile" -> acl[sender].tiles[index]

\* C30 as stated: within joinGame and placeBuilding, every value is granted
\* to its owner and to the contract before it is stored in the account.
C30_GrantBeforeStore ==
    \A i \in 1..Len(LastSteps) :
        LastSteps[i].act = "store" =>
            {This, last.sender} \subseteq GrantedAfter(LastSteps, i - 1, LastSteps[i].handle)

\* C30 as amended: within joinGame and placeBuilding, every value stored in
\* the account is granted to the contract and then to its owner right after
\* the store, in the same transaction, so that when the transaction ends
\* every value it stored is granted to both.
C30_GrantRightAfterStore ==
    \A i \in 1..Len(LastSteps) :
        LastSteps[i].act = "store" =>
            /\ i + 2 <= Len(LastSteps)
            /\ SubSeq(LastSteps, i + 1, i + 2)
                  = GrantSteps(LastSteps[i].handle, last.sender)
            /\ GrantedAfter(LastSteps, Len(LastSteps), LastSteps[i].handle)
                  = {This, last.sender}
            /\ AclOf(last.sender, LastSteps[i].kind, LastSteps[i].index)
                  = GrantedAfter(LastSteps, Len(LastSteps), LastSteps[i].handle)

\* a placement has just stored and granted a new tile, balance and status
C30_Witness ==
    /\ Placed
    /\ StatusNow = STATUS_SUCCESS
    /\ last.position = GRID_SIZE - 1
    /\ Len(LastSteps) = 9

====
